---- MODULE Spec2Model ----
(***************************************************************************)
(* Servatio: one-directional mirror of a source tree onto a destination    *)
(* tree.  The module models                                                *)
(*   - the sync engine of src/core/sync_logic.py (variant "core") and of   *)
(*     src/app1.py (variant "app1"), with the helpers of                   *)
(*     src/utils/helpers.py, over small file trees        (specification   *)
(*     Spec);                                                              *)
(*   - files_are_equal over file stats                    (SpecEq);        *)
(*   - validate_paths and the pre-flight part of ServatioApp.run_task      *)
(*     over pathlib-style paths                           (SpecUI).        *)
(* Paths inside a tree are sequences of names relative to the tree's root; *)
(* a name is a sequence of characters.  Time is counted in ticks of 0.1 s. *)
(***************************************************************************)
EXTENDS Integers, Sequences, FiniteSets, TLC

VARIABLES
    \* the sync engine (Spec)
    variant,      \* "core": src/core/sync_logic.py, "app1": src/app1.py
    src,          \* the source tree: path |-> node
    dst,          \* the destination tree
    dst0,         \* the destination tree before the first run
    patterns,     \* task.exclude_patterns
    delete,       \* task.delete_extra, passed as should_delete
    pc,           \* "ready", "running", "done" or "raised"
    stack,        \* the active calls of sync_recursive, innermost last
    metrics,      \* BackupMetrics of the current run
    calls,        \* calls of safe_copy / safe_remove in the current run
    run,          \* number of runs started
    prev,         \* how the previous run ended
    fault,        \* the operation that fails on the entries named FaultName
    roots,        \* whether task.source and task.destination exist
    \* files_are_equal (SpecEq)
    file1,        \* file1.stat()
    file2_exists, \* file2.exists()
    file2,        \* file2.stat()
    eq_done,      \* files_are_equal has returned
    equal,        \* its result
    \* validate_paths (SpecVal)
    osname,       \* os.name: "nt" or "posix"
    v_src,        \* the arguments of validate_paths
    v_dst,
    verdict,      \* "none" before the call, then "ok" or the error raised
    \* ServatioApp (SpecUI)
    tasks,        \* self.tasks
    current_task, \* index into tasks, 0 for None
    run_btn,      \* state of the run button
    log_dir_exists,
    log_files,    \* log files created by setup_logging
    progress_info,\* the module-level dict; lock: identity of its Lock
    queue,        \* jobs submitted to the executor and not yet started
    worker,       \* "idle", or "running" while task_runner executes
    completions,  \* on_task_complete callbacks posted with root.after
    shown,        \* the last message box of run_task
    submitted,    \* number of jobs submitted
    threads,      \* app1.py: threads running run_sync_in_thread
    \* the progress state shared by the threads (SpecProg)
    wpc,          \* the worker thread's position
    held,         \* identity of the Lock the worker holds, -1 for none
    snap,         \* what update_progress has read, and from which dict
    left,         \* single files the worker has still to copy
    unguarded,    \* an access was made without the lock of the dict accessed
    \* ConfigManager (SpecCfg)
    cfg_tasks,    \* the tasks given to save
    cfg_pc,       \* "init", "saved", "save_raised" or "loaded"
    cfg_file,     \* the sections task_0, task_1, ... of the file
    cfg_loaded,   \* what load returned
    \* BackupMetrics (SpecMet)
    start_time,   \* metrics.start_time
    end_time,     \* metrics.end_time
    now,          \* datetime.now()
    user,         \* who calls the object: "any" caller or "task_runner"
    tr,           \* task_runner's position
    dur,          \* the last result of duration()
    started,      \* start() has been called
    finished,     \* finish() has been called
    \* get_folder_size (SpecSize)
    entries,      \* what path.glob("**/*") yields, in order
    size_done,    \* get_folder_size has returned
    size_total    \* its result

syncVars == <<variant, src, dst, dst0, patterns, delete, pc, stack, metrics,
              calls, run, prev, fault, roots>>
eqVars == <<file1, file2_exists, file2, eq_done, equal>>
valVars == <<v_src, v_dst, verdict>>
uiVars == <<tasks, current_task, run_btn, log_dir_exists, log_files,
            progress_info, queue, worker, completions, shown, submitted,
            threads>>

progVars == <<wpc, held, snap, left, unguarded>>

cfgVars == <<cfg_tasks, cfg_pc, cfg_file, cfg_loaded>>

metVars == <<start_time, end_time, now, user, tr, dur, started, finished>>
sizeVars == <<entries, size_done, size_total>>

\* the state of the specifications added after the first four
others == <<progVars, cfgVars, metVars, sizeVars>>

vars == <<syncVars, eqVars, osname, valVars, uiVars, others>>

nonSync == <<eqVars, osname, valVars, uiVars, others>>
nonEq == <<syncVars, osname, valVars, uiVars, others>>
nonVal == <<syncVars, eqVars, uiVars, others>>
nonUi == <<syncVars, eqVars, valVars, others>>

----------------------------------------------------------------------------
(* Bounds *)

MaxDepth == 2
MaxSrcNodes == 2
MaxDstNodes == 2
MaxRuns == 2

\* Python's recursion limit, scaled to the trees of the model: deeper than
\* any walk that follows the tree.
RecursionLimit == MaxDepth + 2

----------------------------------------------------------------------------
(* Names, patterns and fnmatch *)

NameD == <<"d">>
NameX == <<"x">>
NameL == <<"a", ".", "l">>

Names == {NameD, NameX, NameL}

\* the order in which iterdir yields the entries of a directory
NameOrder == <<NameD, NameX, NameL>>

PatLog == <<"*", ".", "l">>
PatSub == <<"d", "/", "*">>

PatternLists == {<<PatLog>>, <<PatSub>>}

RECURSIVE fnmatch(_, _)
fnmatch(name, pat) ==
    IF pat = <<>> THEN name = <<>>
    ELSE IF Head(pat) = "*"
         THEN fnmatch(name, Tail(pat))
              \/ (name # <<>> /\ fnmatch(Tail(name), pat))
         ELSE /\ name # <<>>
              /\ (Head(pat) = "?" \/ Head(pat) = Head(name))
              /\ fnmatch(Tail(name), Tail(pat))

RECURSIVE as_posix(_)
as_posix(rel) ==
    IF rel = <<>> THEN <<".">>
    ELSE IF Len(rel) = 1 THEN rel[1]
         ELSE rel[1] \o <<"/">> \o as_posix(Tail(rel))

IsPrefix(p, q) == Len(p) <= Len(q) /\ SubSeq(q, 1, Len(p)) = p

Suffix(q, n) == SubSeq(q, n + 1, Len(q))

is_excluded(path, exclude_patterns, base_path) ==
    IF ~IsPrefix(base_path, path) THEN FALSE
    ELSE LET rel_path == as_posix(Suffix(path, Len(base_path)))
         IN  \E i \in 1..Len(exclude_patterns) :
                \/ fnmatch(rel_path, exclude_patterns[i])
                \/ fnmatch(rel_path, <<"*", "*", "/">> \o exclude_patterns[i])

----------------------------------------------------------------------------
(* File trees *)

OneSecond == 10

DirNode == [kind |-> "dir", size |-> 0, mtime |-> 0]
FileNode(s, m) == [kind |-> "file", size |-> s, mtime |-> m]

SrcNodes == {DirNode, FileNode(1, OneSecond)}
\* destination files 0.9 s and 1.0 s older than the source's
DstNodes == {DirNode, FileNode(1, 1), FileNode(1, 0)}

EmptyTree == [p \in {} |-> DirNode]

Parent(p) == SubSeq(p, 1, Len(p) - 1)
Last(p) == p[Len(p)]

KindAt(t, p) ==
    IF p = <<>> THEN "dir"
    ELSE IF p \in DOMAIN t THEN t[p].kind ELSE "none"

Listing(t, p) == SelectSeq(NameOrder, LAMBDA n : Append(p, n) \in DOMAIN t)

AllPaths == UNION {[1..k -> Names] : k \in 1..MaxDepth}

RECURSIVE TreesUpTo(_, _)
TreesUpTo(k, nodes) ==
    IF k = 0 THEN {EmptyTree}
    ELSE LET smaller == TreesUpTo(k - 1, nodes)
         IN  smaller \cup
             UNION {{t @@ (p :> n) : n \in nodes,
                       p \in {q \in AllPaths : /\ q \notin DOMAIN t
                                               /\ KindAt(t, Parent(q)) = "dir"}}
                    : t \in smaller}

SrcTrees == TreesUpTo(MaxSrcNodes, SrcNodes)
DstTrees == TreesUpTo(MaxDstNodes, DstNodes)

Under(t, p) == {q \in DOMAIN t : IsPrefix(p, q)}

\* shutil.rmtree / Path.unlink
RemoveTree(t, p) == [q \in DOMAIN t \ Under(t, p) |-> t[q]]

Put(t, p, n) == [q \in DOMAIN t \cup {p} |-> IF q = p THEN n ELSE t[q]]

\* Path.mkdir(parents=True, exist_ok=True)
RECURSIVE MkDirs(_, _)
MkDirs(t, p) ==
    IF KindAt(t, p) = "dir" THEN [fs |-> t, ok |-> TRUE]
    ELSE IF KindAt(t, p) = "file" THEN [fs |-> t, ok |-> FALSE]
    ELSE LET up == MkDirs(t, Parent(p))
         IN  IF up.ok THEN [fs |-> Put(up.fs, p, DirNode), ok |-> TRUE]
             ELSE up

\* shutil.copy2(src, dst): into dst/basename(src) when dst is a directory
CopyFile(t, node, name, dp) ==
    LET target == IF KindAt(t, dp) = "dir" THEN Append(dp, name) ELSE dp
    IN  IF KindAt(t, target) = "dir" \/ KindAt(t, Parent(target)) # "dir"
        THEN [fs |-> t, ok |-> FALSE]
        ELSE [fs |-> Put(t, target, node), ok |-> TRUE]

\* shutil.copytree(src, dst, dirs_exist_ok=True)
RECURSIVE CopyTree(_, _, _, _)
RECURSIVE CopyEntries(_, _, _, _, _)
CopyTree(t, s, sp, dp) ==
    IF KindAt(t, dp) = "file" \/ KindAt(t, Parent(dp)) # "dir"
    THEN [fs |-> t, ok |-> FALSE]
    ELSE CopyEntries(Put(t, dp, DirNode), s, sp, dp, Listing(s, sp))

CopyEntries(t, s, sp, dp, names) ==
    IF names = <<>> THEN [fs |-> t, ok |-> TRUE]
    ELSE LET n == Head(names)
             one == IF s[Append(sp, n)].kind = "dir"
                    THEN CopyTree(t, s, Append(sp, n), Append(dp, n))
                    ELSE CopyFile(t, s[Append(sp, n)], n, Append(dp, n))
             rest == CopyEntries(one.fs, s, sp, dp, Tail(names))
         IN  [fs |-> rest.fs, ok |-> one.ok /\ rest.ok]

\* get_total_files(src, exclude_patterns): rglob yields every entry below
\* src, and each file is tested against the patterns relative to src
get_total_files(t, exclude_patterns) ==
    Cardinality({p \in DOMAIN t : /\ t[p].kind = "file"
                                  /\ ~is_excluded(p, exclude_patterns, <<>>)})

----------------------------------------------------------------------------
(* Failing operations: an OSError such as PermissionError, or               *)
(* FileNotFoundError for an entry that vanished after it was listed        *)

\* "copy": copy2 / copytree, "remove": unlink / rmtree, "stat": Path.stat,
\* "mkdir": dst.mkdir of the task's destination, "iterdir": the listings
FaultKinds == {"copy", "remove", "stat", "mkdir", "iterdir"}

\* the entries the failing operation fails on
FaultName == NameD

Fails(op, p) == fault = op /\ p # <<>> /\ Last(p) = FaultName

\* the task's destination does not exist and cannot be created
MkdirFails(dp) == fault = "mkdir" /\ dp = <<>>

\* a listing that fails for a time only: in the calls of line 38 made
\* below RelistDepth active calls
RelistDepth ==
    IF fault = "relist1" THEN 1 ELSE IF fault = "relist2" THEN 2 ELSE 0

\* the listings of sync_recursive(sp, ...) called below the calls stk fail:
\* the directory cannot be listed, or not at this time
IterdirFails(stk, sp) ==
    \/ fault = "iterdir" /\ (sp = <<>> \/ Last(sp) = FaultName)
    \/ stk # <<>> /\ Len(stk) = RelistDepth

----------------------------------------------------------------------------
(* files_are_equal *)

Abs(x) == IF x < 0 THEN -x ELSE x

\* the comparison without abs()
files_are_equal_signed(stat1, exists2, stat2) ==
    IF ~exists2 THEN FALSE
    ELSE stat1.size = stat2.size /\ stat1.mtime - stat2.mtime < OneSecond

\* the comparison with <= for <
files_are_equal_inclusive(stat1, exists2, stat2) ==
    IF ~exists2 THEN FALSE
    ELSE stat1.size = stat2.size /\ Abs(stat1.mtime - stat2.mtime) <= OneSecond

files_are_equal(stat1, exists2, stat2) ==
    IF ~exists2 THEN FALSE
    ELSE stat1.size = stat2.size /\ Abs(stat1.mtime - stat2.mtime) < OneSecond

----------------------------------------------------------------------------
(* safe_copy and safe_remove *)

\* the filesystem effect of safe_copy(src_path, dst_path); file: a single
\* file was copied (copy2 returned)
safe_copy(t, sp, dp) ==
    LET mk == MkDirs(t, Parent(dp))
    IN  IF ~mk.ok \/ KindAt(src, sp) = "none" \/ Fails("copy", sp)
        THEN [fs |-> t, ok |-> FALSE, file |-> FALSE]
        ELSE IF KindAt(src, sp) = "dir"
             THEN LET c == CopyTree(mk.fs, src, sp, dp)
                  IN  [fs |-> c.fs, ok |-> c.ok, file |-> FALSE]
             ELSE LET c == CopyFile(mk.fs, src[sp], Last(sp), dp)
                  IN  [fs |-> c.fs, ok |-> c.ok, file |-> c.ok]

\* the filesystem effect of safe_remove(path)
safe_remove(t, p) ==
    IF KindAt(t, p) = "none" \/ Fails("remove", p)
    THEN [fs |-> t, ok |-> FALSE]
    ELSE [fs |-> RemoveTree(t, p), ok |-> TRUE]

\* the counters after a call of safe_copy; app1.py counts no errors
AfterCopy(m, c) ==
    [copied_files |-> m.copied_files + (IF c.file THEN 1 ELSE 0),
     errors |-> m.errors + (IF ~c.ok /\ variant = "core" THEN 1 ELSE 0)]

AfterRemove(m, r) ==
    [m EXCEPT !.errors = @ + (IF ~r.ok /\ variant = "core" THEN 1 ELSE 0)]

----------------------------------------------------------------------------
(* sync_recursive *)

Top == stack[Len(stack)]
Rest == SubSeq(stack, 1, Len(stack) - 1)
Name == Head(Top.todo)
SrcPath == Append(Top.src, Name)
DstPath == Append(Top.dst, Name)

InCopyPass ==
    pc = "running" /\ stack # <<>> /\ Top.todo # <<>> /\ ~Top.pending

\* Top with the current source child done
Advanced == [Top EXCEPT !.todo = Tail(@), !.pending = FALSE]

SeqToSet(q) == {q[i] : i \in 1..Len(q)}

\* no handler: the error of the listing leaves sync_recursive
ListingFailed_raises(stk, t) ==
    [stack |-> <<>>, fs |-> t, raised |-> TRUE, logged |-> 0, made |-> TRUE]

\* the handlers of lines 24-29: one line logged, return to the caller
ListingFailed(stk, t) ==
    [stack |-> stk, fs |-> t, raised |-> FALSE, logged |-> 1, made |-> TRUE]

\* the test left out: only the entries below the root are looked up
SourceExists_unchecked(sp) == KindAt(src, sp) # "none"

\* src.exists() of line 15
SourceExists(sp) == KindAt(src, sp) # "none" /\ (sp = <<>> => roots.src)

\* the entry of sync_recursive(sp, dp) below the calls stk: existence test,
\* dst.mkdir and the two listings; logged: the lines given to log_callback,
\* made: dst.mkdir has returned
Enter(stk, t, sp, dp) ==
    IF ~SourceExists(sp)
    THEN [stack |-> stk, fs |-> t, raised |-> FALSE, logged |-> 1,
          made |-> FALSE]
    ELSE LET mk == MkDirs(t, dp)
         IN  IF ~mk.ok \/ MkdirFails(dp)
             THEN [stack |-> <<>>, fs |-> t, raised |-> TRUE, logged |-> 0,
                   made |-> FALSE]
             ELSE IF KindAt(src, sp) # "dir" \/ IterdirFails(stk, sp)
             THEN ListingFailed(stk, mk.fs)
             ELSE LET src_items ==
                          SelectSeq(Listing(src, sp), LAMBDA n :
                              ~is_excluded(Append(sp, n), patterns, sp))
                      dst_items == Listing(mk.fs, dp)
                  IN  [stack |-> Append(stk,
                           [src |-> sp, dst |-> dp,
                            dst_items |-> SeqToSet(dst_items),
                            todo |-> src_items,
                            extras |-> SelectSeq(dst_items, LAMBDA n :
                                           n \notin SeqToSet(src_items)),
                            pending |-> FALSE]),
                       fs |-> mk.fs, raised |-> FALSE, logged |-> 0,
                       made |-> TRUE]

PcAfter(e) ==
    IF e.raised THEN "raised" ELSE IF e.stack = <<>> THEN "done" ELSE "running"

NoMetrics == [copied_files |-> 0, errors |-> 0]
NoCalls == [copy |-> 0, remove |-> 0, log |-> 0]

\* task_runner / run_sync_in_thread: a run starts with fresh counters
StartRun ==
    /\ pc \in {"ready", "done", "raised"}
    /\ run < MaxRuns
    /\ LET e == Enter(<<>>, dst, <<>>, <<>>)
       IN  /\ stack' = e.stack
           /\ dst' = e.fs
           /\ pc' = PcAfter(e)
           /\ calls' = [NoCalls EXCEPT !.log = e.logged]
           /\ roots' = [roots EXCEPT !.dst = @ \/ e.made]
    /\ run' = run + 1
    /\ prev' = pc
    /\ metrics' = NoMetrics
    /\ UNCHANGED <<nonSync, variant, src, dst0, patterns, delete, fault>>

\* name not in dst_items
CopyNew ==
    /\ InCopyPass
    /\ Name \notin Top.dst_items
    /\ LET c == safe_copy(dst, SrcPath, DstPath)
       IN  /\ dst' = c.fs
           /\ metrics' = AfterCopy(metrics, c)
    /\ calls' = [calls EXCEPT !.copy = @ + 1, !.log = @ + 1]
    /\ stack' = Append(Rest, Advanced)
    /\ UNCHANGED <<nonSync, variant, src, dst0, patterns, delete, pc, run, prev,
                   fault, roots>>

BothDirs ==
    /\ InCopyPass
    /\ Name \in Top.dst_items
    /\ KindAt(src, SrcPath) = "dir"
    /\ KindAt(dst, DstPath) = "dir"

\* the arguments of the recursive call: core passes the task again
CalleeSrc == IF variant = "core" THEN <<>> ELSE SrcPath
CalleeDst == IF variant = "core" THEN <<>> ELSE DstPath

Recurse ==
    /\ BothDirs
    /\ Len(stack) < RecursionLimit
    /\ LET e == Enter(Append(Rest, Advanced), dst, CalleeSrc, CalleeDst)
       IN  /\ stack' = e.stack
           /\ dst' = e.fs
           /\ pc' = PcAfter(e)
           /\ calls' = [calls EXCEPT !.log = @ + e.logged]
           /\ roots' = [roots EXCEPT !.dst = @ \/ e.made]
    /\ UNCHANGED <<nonSync, variant, src, dst0, patterns, delete, metrics, run,
                   prev, fault>>

\* RecursionError: no frame of sync_recursive catches it
RecursionOverflow ==
    /\ BothDirs
    /\ Len(stack) >= RecursionLimit
    /\ stack' = <<>>
    /\ pc' = "raised"
    /\ UNCHANGED <<nonSync, variant, src, dst, dst0, patterns, delete, metrics,
                   calls, run, prev, fault, roots>>

BothFiles ==
    /\ InCopyPass
    /\ Name \in Top.dst_items
    /\ KindAt(src, SrcPath) = "file"
    /\ KindAt(dst, DstPath) = "file"

\* file1.stat() of files_are_equal raises: no frame of sync_recursive
\* catches it
StatRaises ==
    /\ BothFiles
    /\ Fails("stat", SrcPath)
    /\ stack' = <<>>
    /\ pc' = "raised"
    /\ UNCHANGED <<nonSync, variant, src, dst, dst0, patterns, delete, metrics,
                   calls, run, prev, fault, roots>>

SkipEqual ==
    /\ BothFiles
    /\ ~Fails("stat", SrcPath)
    /\ files_are_equal(src[SrcPath], TRUE, dst[DstPath])
    /\ stack' = Append(Rest, Advanced)
    /\ UNCHANGED <<nonSync, variant, src, dst, dst0, patterns, delete, pc, metrics,
                   calls, run, prev, fault, roots>>

UpdateFile ==
    /\ BothFiles
    /\ ~Fails("stat", SrcPath)
    /\ ~files_are_equal(src[SrcPath], TRUE, dst[DstPath])
    /\ LET c == safe_copy(dst, SrcPath, DstPath)
       IN  /\ dst' = c.fs
           /\ metrics' = AfterCopy(metrics, c)
    /\ calls' = [calls EXCEPT !.copy = @ + 1, !.log = @ + 1]
    /\ stack' = Append(Rest, Advanced)
    /\ UNCHANGED <<nonSync, variant, src, dst0, patterns, delete, pc, run, prev,
                   fault, roots>>

\* the else branch, first half: safe_remove(existing_dst)
ConflictRemove ==
    /\ InCopyPass
    /\ Name \in Top.dst_items
    /\ ~(KindAt(src, SrcPath) = "dir" /\ KindAt(dst, DstPath) = "dir")
    /\ ~(KindAt(src, SrcPath) = "file" /\ KindAt(dst, DstPath) = "file")
    /\ LET r == safe_remove(dst, DstPath)
       IN  /\ dst' = r.fs
           /\ metrics' = AfterRemove(metrics, r)
    /\ calls' = [calls EXCEPT !.remove = @ + 1, !.log = @ + 1]
    /\ stack' = Append(Rest, [Top EXCEPT !.pending = TRUE])
    /\ UNCHANGED <<nonSync, variant, src, dst0, patterns, delete, pc, run, prev,
                   fault, roots>>

\* the else branch, second half: safe_copy(src_path, dst_path)
ConflictCopy ==
    /\ pc = "running" /\ stack # <<>> /\ Top.pending
    /\ LET c == safe_copy(dst, SrcPath, DstPath)
       IN  /\ dst' = c.fs
           /\ metrics' = AfterCopy(metrics, c)
    /\ calls' = [calls EXCEPT !.copy = @ + 1, !.log = @ + 1]
    /\ stack' = Append(Rest, Advanced)
    /\ UNCHANGED <<nonSync, variant, src, dst0, patterns, delete, pc, run, prev,
                   fault, roots>>

\* a caller that leaves the argument out gets the default
should_delete_default == TRUE

\* the argument should_delete: the task's delete_extra
should_delete == delete

\* the deletion pass, one destination child not in src_items
DeleteExtra ==
    /\ pc = "running" /\ stack # <<>> /\ Top.todo = <<>>
    /\ should_delete
    /\ Top.extras # <<>>
    /\ LET r == safe_remove(dst, Append(Top.dst, Head(Top.extras)))
       IN  /\ dst' = r.fs
           /\ metrics' = AfterRemove(metrics, r)
    /\ calls' = [calls EXCEPT !.remove = @ + 1, !.log = @ + 1]
    /\ stack' = Append(Rest, [Top EXCEPT !.extras = Tail(@)])
    /\ UNCHANGED <<nonSync, variant, src, dst0, patterns, delete, pc, run, prev,
                   fault, roots>>

\* the call returns to its caller
Return ==
    /\ pc = "running" /\ stack # <<>> /\ Top.todo = <<>>
    /\ ~should_delete \/ Top.extras = <<>>
    /\ stack' = Rest
    /\ pc' = IF Rest = <<>> THEN "done" ELSE "running"
    /\ UNCHANGED <<nonSync, variant, src, dst, dst0, patterns, delete, metrics,
                   calls, run, prev, fault, roots>>

\* task.source and task.destination both exist
BothRoots == [src |-> TRUE, dst |-> TRUE]

\* the parts of the state a specification does not use keep these values
SyncRestIdle ==
    /\ src = EmptyTree /\ dst = EmptyTree
    /\ dst0 = EmptyTree /\ patterns = <<PatLog>> /\ delete = FALSE
    /\ pc = "ready" /\ stack = <<>> /\ metrics = NoMetrics
    /\ calls = NoCalls /\ run = 0 /\ prev = "none" /\ fault = "none"
    /\ roots = BothRoots

EqIdle ==
    /\ file1 = [size |-> 1, mtime |-> 0] /\ file2 = [size |-> 1, mtime |-> 0]
    /\ file2_exists = FALSE /\ eq_done = FALSE /\ equal = FALSE

ValIdle == v_src = <<>> /\ v_dst = <<>> /\ verdict = "none"

SyncIdle == variant = "core" /\ SyncRestIdle

NoProgress ==
    [total_files |-> 0, processed_files |-> 0, current_file |-> "", lock |-> 0]

UiIdle ==
    /\ tasks = <<>> /\ current_task = 0 /\ run_btn = "disabled"
    /\ log_dir_exists = FALSE /\ log_files = 0
    /\ progress_info = NoProgress /\ queue = <<>> /\ worker = "idle"
    /\ completions = 0 /\ shown = "none" /\ submitted = 0 /\ threads = 0

NoSnap == [total |-> 0, done |-> 0, from |-> <<>>]

ProgIdle ==
    /\ wpc = "idle" /\ held = -1 /\ snap = NoSnap /\ left = 0
    /\ unguarded = FALSE

CfgIdle ==
    cfg_tasks = <<>> /\ cfg_pc = "init" /\ cfg_file = <<>> /\ cfg_loaded = <<>>

\* None, and a value that is not None
None == [none |-> TRUE, value |-> 0]
Some(v) == [none |-> FALSE, value |-> v]

NotRead == [read |-> FALSE, none |-> TRUE, value |-> 0]

MetIdle ==
    /\ start_time = None /\ end_time = None /\ now = 0 /\ user = "any"
    /\ tr = "none" /\ dur = NotRead /\ started = FALSE /\ finished = FALSE

SizeIdle == entries = <<>> /\ size_done = FALSE /\ size_total = 0

OthersIdle == ProgIdle /\ CfgIdle /\ MetIdle /\ SizeIdle

Init ==
    /\ variant \in {"core", "app1"}
    /\ src \in SrcTrees
    /\ dst \in DstTrees
    /\ dst0 = dst
    /\ patterns \in PatternLists
    /\ delete \in BOOLEAN
    /\ pc = "ready"
    /\ stack = <<>>
    /\ metrics = NoMetrics
    /\ calls = NoCalls
    /\ run = 0
    /\ prev = "none"
    /\ fault = "none"
    /\ roots = BothRoots
    /\ EqIdle /\ osname = "posix" /\ ValIdle /\ UiIdle /\ OthersIdle

Next ==
    \/ StartRun
    \/ CopyNew
    \/ Recurse
    \/ RecursionOverflow
    \/ SkipEqual
    \/ UpdateFile
    \/ ConflictRemove
    \/ ConflictCopy
    \/ DeleteExtra
    \/ Return

Spec == Init /\ [][Next]_vars

----------------------------------------------------------------------------
(* The sync engine of src/core/sync_logic.py with one kind of operation    *)
(* failing: SpecFault                                                      *)

InitFault ==
    /\ variant = "core"
    /\ src \in SrcTrees
    /\ dst \in DstTrees
    /\ dst0 = dst
    /\ patterns = <<PatSub>>
    /\ delete \in BOOLEAN
    /\ pc = "ready"
    /\ stack = <<>>
    /\ metrics = NoMetrics
    /\ calls = NoCalls
    /\ run = 0
    /\ prev = "none"
    /\ fault \in FaultKinds
    /\ fault = "mkdir" => dst = EmptyTree
    /\ roots = [src |-> TRUE, dst |-> fault # "mkdir"]
    /\ EqIdle /\ osname = "posix" /\ ValIdle /\ UiIdle /\ OthersIdle

NextFault == Next \/ StatRaises

SpecFault == InitFault /\ [][NextFault]_vars

----------------------------------------------------------------------------
(* The sync engine of src/core/sync_logic.py on tasks whose source or      *)
(* destination directory may not exist: SpecRoots                          *)

InitRoots ==
    /\ variant = "core"
    /\ src \in SrcTrees
    /\ dst \in DstTrees
    /\ dst0 = dst
    /\ patterns \in PatternLists
    /\ delete \in BOOLEAN
    /\ pc = "ready"
    /\ stack = <<>>
    /\ metrics = NoMetrics
    /\ calls = NoCalls
    /\ run = 0
    /\ prev = "none"
    /\ fault = "none"
    /\ roots \in [src : BOOLEAN, dst : BOOLEAN]
    /\ ~roots.src => src = EmptyTree
    /\ ~roots.dst => dst = EmptyTree
    /\ EqIdle /\ osname = "posix" /\ ValIdle /\ UiIdle /\ OthersIdle

SpecRoots == InitRoots /\ [][Next]_vars

----------------------------------------------------------------------------
(* The sync engine of src/core/sync_logic.py with listings that fail:      *)
(* SpecList                                                                *)

ListFaults == {"none", "iterdir", "relist1", "relist2"}

InitList ==
    /\ variant = "core"
    /\ src \in SrcTrees
    /\ dst \in DstTrees
    /\ dst0 = dst
    /\ patterns \in PatternLists
    /\ delete \in BOOLEAN
    /\ pc = "ready"
    /\ stack = <<>>
    /\ metrics = NoMetrics
    /\ calls = NoCalls
    /\ run = 0
    /\ prev = "none"
    /\ fault \in ListFaults
    /\ roots = BothRoots
    /\ EqIdle /\ osname = "posix" /\ ValIdle /\ UiIdle /\ OthersIdle

SpecList == InitList /\ [][Next]_vars

----------------------------------------------------------------------------
(* files_are_equal as a function of the two stats: SpecEq *)

MaxSize == 2
MaxMTime == 15

Stats == [size : 1..MaxSize, mtime : 0..MaxMTime]

FilesAreEqual ==
    /\ ~eq_done
    /\ eq_done' = TRUE
    /\ equal' = files_are_equal(file1, file2_exists, file2)
    /\ UNCHANGED <<nonEq, file1, file2_exists, file2>>

InitEq ==
    /\ file1 \in Stats
    /\ file2 \in Stats
    /\ file2_exists \in BOOLEAN
    /\ eq_done = FALSE
    /\ equal = FALSE
    /\ SyncIdle /\ osname = "posix" /\ ValIdle /\ UiIdle /\ OthersIdle

NextEq == FilesAreEqual

SpecEq == InitEq /\ [][NextEq]_vars

----------------------------------------------------------------------------
(* pathlib paths: a drive letter ("" for none), a root and the parts *)

Da == <<"d", "a">>
DA == <<"D", "A">>
Ln == <<"l", "n">>
Bk == <<"b", "k">>

PathOf(drive, root, parts) == [drive |-> drive, root |-> root, parts |-> parts]

PathSet(os) ==
    IF os = "nt"
    THEN {PathOf("C", TRUE, <<>>), PathOf("c", TRUE, <<>>),
          PathOf("A", TRUE, <<>>), PathOf("C", TRUE, <<Da>>),
          PathOf("C", TRUE, <<DA>>), PathOf("C", TRUE, <<Ln>>),
          PathOf("C", TRUE, <<Bk>>), PathOf("", FALSE, <<Da>>)}
    ELSE {PathOf("", TRUE, <<>>), PathOf("", TRUE, <<Da>>),
          PathOf("", TRUE, <<DA>>), PathOf("", TRUE, <<Ln>>),
          PathOf("", TRUE, <<Bk>>), PathOf("", FALSE, <<Da>>)}

Sep(os) == IF os = "nt" THEN "\\" ELSE "/"

RECURSIVE Join(_, _)
Join(parts, sep) ==
    IF parts = <<>> THEN <<>>
    ELSE IF Len(parts) = 1 THEN parts[1]
         ELSE parts[1] \o <<sep>> \o Join(Tail(parts), sep)

\* str(path)
Str(os, p) ==
    LET anchor == (IF p.drive # "" THEN <<p.drive, ":">> ELSE <<>>)
                  \o (IF p.root THEN <<Sep(os)>> ELSE <<>>)
        text == anchor \o Join(p.parts, Sep(os))
    IN  IF text = <<>> THEN <<".">> ELSE text

Upper(c) ==
    CASE c = "a" -> "A" [] c = "b" -> "B" [] c = "c" -> "C"
      [] c = "d" -> "D" [] c = "k" -> "K" [] c = "l" -> "L"
      [] c = "n" -> "N" [] OTHER -> c

\* str.upper()
UpperStr(s) == [i \in 1..Len(s) |-> Upper(s[i])]

\* str.rstrip("\\/")
RECURSIVE RStrip(_)
RStrip(s) ==
    IF s # <<>> /\ s[Len(s)] \in {"\\", "/"}
    THEN RStrip(SubSeq(s, 1, Len(s) - 1))
    ELSE s

is_absolute(os, p) == p.root /\ (os = "nt" => p.drive # "")

\* ln is a symbolic link to da; the working directory is the root of C:
LinkTarget(name) == IF name = Ln THEN Da ELSE name

\* Path.resolve()
resolve(os, p) ==
    [drive |-> IF p.drive = "" /\ os = "nt" THEN "C" ELSE p.drive,
     root |-> TRUE,
     parts |-> [i \in 1..Len(p.parts) |-> LinkTarget(p.parts[i])]]

\* Path.__eq__: Windows paths compare without regard to case
PathEq(os, p, q) ==
    IF os = "nt" THEN UpperStr(Str(os, p)) = UpperStr(Str(os, q)) ELSE p = q

DangerousLetters ==
    {"C", "D", "E", "F", "G", "H", "I", "J", "K", "L", "M", "N", "O", "P",
     "Q", "R", "S", "T", "U", "V", "W", "X", "Y", "Z"}

dangerous == {<<d, ":", "\\">> : d \in DangerousLetters}

\* the validation without the identity check
validate_paths_no_identity(os, s, d) ==
    IF ~is_absolute(os, s) \/ ~is_absolute(os, d) THEN "NotAbsolute"
    ELSE IF UpperStr(RStrip(Str(os, d))) \in {UpperStr(x) : x \in dangerous}
         THEN "DriveRoot"
         ELSE "ok"

validate_paths(os, s, d) ==
    IF ~is_absolute(os, s) \/ ~is_absolute(os, d) THEN "NotAbsolute"
    ELSE IF PathEq(os, resolve(os, s), resolve(os, d)) THEN "SameLocation"
    ELSE IF UpperStr(RStrip(Str(os, d))) \in {UpperStr(x) : x \in dangerous}
         THEN "DriveRoot"
         ELSE "ok"

----------------------------------------------------------------------------
(* validate_paths as a function of its arguments: SpecVal *)

ValidatePaths ==
    /\ verdict = "none"
    /\ verdict' = validate_paths(osname, v_src, v_dst)
    /\ UNCHANGED <<nonVal, osname, v_src, v_dst>>

InitVal ==
    /\ osname \in {"nt", "posix"}
    /\ v_src \in PathSet(osname)
    /\ v_dst \in PathSet(osname)
    /\ verdict = "none"
    /\ SyncIdle /\ EqIdle /\ UiIdle /\ OthersIdle

NextVal == ValidatePaths

SpecVal == InitVal /\ [][NextVal]_vars

----------------------------------------------------------------------------
(* ServatioApp of src/ui/main_window.py: SpecUI *)

NTasks == 2
MaxSubmits == 2
MaxTotal == 1

SrcChoices(os) ==
    {p \in PathSet(os) : p.parts \in {<<Da>>, <<Ln>>}}
DstChoices(os) ==
    {p \in PathSet(os) : is_absolute(os, p) /\ p.drive \in {"", "C"}
                         /\ p.parts \in {<<>>, <<Da>>, <<DA>>, <<Bk>>}}

TaskSet(os) ==
    [source : SrcChoices(os), destination : DstChoices(os)]

\* on_task_select; i = 0: the selection is empty, clear_task_details
OnTaskSelect(i) ==
    /\ current_task' = i
    /\ run_btn' = IF i = 0 THEN "disabled" ELSE "normal"
    /\ UNCHANGED <<nonUi, osname, tasks, log_dir_exists, log_files,
                   progress_info, queue, worker, completions, shown,
                   submitted, threads>>

\* run_task from the log directory on: the run is prepared and submitted
\* to the executor (main_window.py), or a thread is started for it (app1.py,
\* where the thread creates the log file)
StartJob(total) ==
    /\ log_dir_exists' = TRUE
    /\ progress_info' = [total_files |-> total, processed_files |-> 0,
                         current_file |-> "",
                         lock |-> progress_info.lock + 1]
    /\ run_btn' = "disabled"
    /\ IF variant = "core"
       THEN /\ log_files' = log_files + 1
            /\ queue' = Append(queue, [validated |-> current_task])
            /\ UNCHANGED threads
       ELSE /\ threads' = threads + 1
            /\ UNCHANGED <<log_files, queue>>
    /\ submitted' = submitted + 1

NoJob ==
    UNCHANGED <<log_dir_exists, log_files, progress_info, run_btn, queue,
                submitted, threads>>

\* the run button is pressed: run_task, the whole handler.  src_size,
\* probe_ok and free_space are what get_folder_size and get_free_space
\* report, answer is the user's answer to the warning, total is what
\* get_total_files counts.
RunTask ==
    /\ run_btn = "normal"
    /\ submitted < MaxSubmits
    /\ IF current_task = 0
       THEN UNCHANGED shown /\ NoJob
       ELSE LET src_path == resolve(osname, tasks[current_task].source)
                dst_path == resolve(osname, tasks[current_task].destination)
                v == validate_paths(osname, src_path, dst_path)
            IN  IF v # "ok"
                THEN shown' = v /\ NoJob
                ELSE \E src_size \in 0..1, probe_ok \in BOOLEAN,
                        free_space \in 0..1, answer \in BOOLEAN,
                        total \in 0..MaxTotal :
                        /\ ~probe_ok => osname = "posix"
                        /\ IF ~probe_ok
                           THEN shown' = "traceback" /\ NoJob
                           ELSE IF src_size > free_space
                           THEN /\ shown' = "NoSpace"
                                /\ IF answer THEN StartJob(total)
                                   ELSE NoJob
                           ELSE shown' = "none" /\ StartJob(total)
    /\ UNCHANGED <<nonUi, osname, tasks, current_task, worker, completions>>

\* the executor's thread takes the next job: task_runner up to the call of
\* sync_recursive(self.current_task, ...); with no current task the job
\* dies on self.current_task.delete_extra
TaskRunnerStart ==
    /\ queue # <<>>
    /\ worker = "idle"
    /\ queue' = Tail(queue)
    /\ worker' = IF current_task = 0 THEN "idle" ELSE "running"
    /\ UNCHANGED <<nonUi, osname, tasks, current_task, run_btn,
                   log_dir_exists, log_files, progress_info, completions,
                   shown, submitted, threads>>

\* sync_recursive returned: metrics.finish, root.after(0, on_task_complete)
TaskRunnerFinish ==
    /\ worker = "running"
    /\ worker' = "idle"
    /\ completions' = completions + 1
    /\ UNCHANGED <<nonUi, osname, tasks, current_task, run_btn,
                   log_dir_exists, log_files, progress_info, queue, shown,
                   submitted, threads>>

\* sync_recursive raised: the exception ends task_runner
TaskRunnerRaise ==
    /\ worker = "running"
    /\ worker' = "idle"
    /\ UNCHANGED <<nonUi, osname, tasks, current_task, run_btn,
                   log_dir_exists, log_files, progress_info, queue,
                   completions, shown, submitted, threads>>

\* app1.py: run_sync_in_thread ends, by return or by exception; the log
\* file was created on the way and finally posts on_task_complete
ThreadFinish ==
    /\ threads > 0
    /\ threads' = threads - 1
    /\ log_files' = log_files + 1
    /\ completions' = completions + 1
    /\ UNCHANGED <<nonUi, osname, tasks, current_task, run_btn,
                   log_dir_exists, progress_info, queue, worker, shown,
                   submitted>>

OnTaskComplete ==
    /\ completions > 0
    /\ completions' = completions - 1
    /\ run_btn' = "normal"
    /\ UNCHANGED <<nonUi, osname, tasks, current_task, log_dir_exists,
                   log_files, progress_info, queue, worker, shown,
                   submitted, threads>>

InitUI ==
    /\ osname \in {"nt", "posix"}
    /\ tasks \in [1..NTasks -> TaskSet(osname)]
    /\ current_task = 0
    /\ run_btn = "disabled"
    /\ log_dir_exists \in BOOLEAN
    /\ log_files = 0
    /\ progress_info = NoProgress
    /\ queue = <<>>
    /\ worker = "idle"
    /\ completions = 0
    /\ shown = "none"
    /\ submitted = 0
    /\ threads = 0
    /\ variant \in {"core", "app1"}
    /\ SyncRestIdle /\ EqIdle /\ ValIdle /\ OthersIdle

NextUI ==
    \/ \E i \in 0..NTasks : OnTaskSelect(i)
    \/ RunTask
    \/ TaskRunnerStart
    \/ TaskRunnerFinish
    \/ TaskRunnerRaise
    \/ ThreadFinish
    \/ OnTaskComplete

SpecUI == InitUI /\ [][NextUI]_vars

\* the executor's thread takes the jobs submitted, a call of sync_recursive
\* comes to an end, a started thread comes to an end, and the event loop
\* runs the callbacks posted with root.after
FairUI ==
    /\ WF_vars(TaskRunnerStart)
    /\ WF_vars(TaskRunnerFinish \/ TaskRunnerRaise)
    /\ WF_vars(ThreadFinish)
    /\ WF_vars(OnTaskComplete)

SpecUILive == InitUI /\ [][NextUI]_vars /\ FairUI

----------------------------------------------------------------------------
(* The progress state shared by the run thread and the display thread:     *)
(* SpecProg.  progress_info is the dict the module-level name is bound to; *)
(* its lock field is the identity of the dict and of its Lock.  Every      *)
(* statement looks the name up again.                                      *)

MaxResets == 2
MaxFiles == 2

nonProgSync == <<eqVars, osname, valVars, tasks, current_task, run_btn,
                 log_dir_exists, log_files, queue, worker, completions, shown,
                 submitted, threads, metVars, sizeVars>>

nonProg == <<syncVars, nonProgSync>>

syncButMetrics == <<variant, src, dst, dst0, patterns, delete, pc, stack,
                    calls, run, prev, fault, roots>>

\* an access to the dict now bound to progress_info, by the worker
Guarded == held = progress_info.lock

\* run_task on the UI thread rebinds progress_info to a new dict with a new
\* Lock; the button is 'normal' again as soon as a task is selected
ResetProgress ==
    /\ progress_info.lock < MaxResets
    /\ \E total \in 0..MaxTotal :
          progress_info' = [total_files |-> total,
                            processed_files |-> 0, current_file |-> "",
                            lock |-> progress_info.lock + 1]
    /\ UNCHANGED <<nonProg, cfgVars, progVars>>

\* task_runner: metrics.total_files = progress_info["total_files"]
TaskRunnerReadTotal ==
    /\ wpc = "idle" /\ variant = "core" /\ left > 0
    /\ wpc' = "copy"
    /\ unguarded' = (unguarded \/ ~Guarded)
    /\ UNCHANGED <<nonProg, cfgVars, progress_info, held, snap, left>>

\* run_sync_in_thread of app1.py reads nothing before it calls sync_recursive
RunSyncInThread ==
    /\ wpc = "idle" /\ variant = "app1" /\ left > 0
    /\ wpc' = "copy"
    /\ UNCHANGED <<nonProg, cfgVars, progress_info, held, snap, left, unguarded>>

\* safe_copy, single-file branch: shutil.copy2 has returned and the copy is
\* counted (metrics.copied_files += 1 of line 59; app1.py has no metrics, the
\* field counts its single-file copies)
CopiedOne ==
    /\ wpc = "copy" /\ left > 0
    /\ wpc' = IF variant = "app1" THEN "sc_lock" ELSE "up_lock"
    /\ left' = left - 1
    /\ metrics' = [metrics EXCEPT !.copied_files = @ + 1]
    /\ UNCHANGED <<syncButMetrics, nonProgSync, cfgVars, progress_info, held,
                   snap, unguarded>>

\* sync_recursive has returned
WorkerDone ==
    /\ wpc = "copy" /\ left = 0
    /\ wpc' = "over"
    /\ UNCHANGED <<nonProg, cfgVars, progress_info, held, snap, left, unguarded>>

\* with progress_info["lock"]: of safe_copy (app1.py) and of update_progress
Acquire ==
    /\ wpc \in {"sc_lock", "up_lock"}
    /\ held = -1
    /\ held' = progress_info.lock
    /\ wpc' = IF wpc = "sc_lock" THEN "sc_inc" ELSE "up_total"
    /\ UNCHANGED <<nonProg, cfgVars, progress_info, snap, left, unguarded>>

\* progress_info["processed_files"] += 1
IncProcessed ==
    /\ wpc = "sc_inc"
    /\ progress_info' = [progress_info EXCEPT !.processed_files = @ + 1]
    /\ unguarded' = (unguarded \/ ~Guarded)
    /\ wpc' = "sc_cur"
    /\ UNCHANGED <<nonProg, cfgVars, held, snap, left>>

\* progress_info["current_file"] = str(src.name)
SetCurrent ==
    /\ wpc = "sc_cur"
    /\ progress_info' = [progress_info EXCEPT !.current_file = "x"]
    /\ unguarded' = (unguarded \/ ~Guarded)
    /\ wpc' = "sc_unlock"
    /\ UNCHANGED <<nonProg, cfgVars, held, snap, left>>

\* the end of a with block
Release ==
    /\ wpc \in {"sc_unlock", "up_unlock"}
    /\ held' = -1
    /\ wpc' = IF wpc = "sc_unlock" THEN "up_lock" ELSE "copy"
    /\ UNCHANGED <<nonProg, cfgVars, progress_info, snap, left, unguarded>>

\* update_progress: total = progress_info["total_files"]
ReadTotal ==
    /\ wpc = "up_total"
    /\ snap' = [total |-> progress_info.total_files, done |-> 0,
                from |-> <<progress_info.lock>>]
    /\ unguarded' = (unguarded \/ ~Guarded)
    /\ wpc' = "up_done"
    /\ UNCHANGED <<nonProg, cfgVars, progress_info, held, left>>

\* done = progress_info["processed_files"]
ReadDone ==
    /\ wpc = "up_done"
    /\ snap' = [snap EXCEPT !.done = progress_info.processed_files,
                            !.from = Append(@, progress_info.lock)]
    /\ unguarded' = (unguarded \/ ~Guarded)
    /\ wpc' = "up_current"
    /\ UNCHANGED <<nonProg, cfgVars, progress_info, held, left>>

\* current = progress_info["current_file"]
ReadCurrent ==
    /\ wpc = "up_current"
    /\ snap' = [snap EXCEPT !.from = Append(@, progress_info.lock)]
    /\ unguarded' = (unguarded \/ ~Guarded)
    /\ wpc' = "up_unlock"
    /\ UNCHANGED <<nonProg, cfgVars, progress_info, held, left>>

InitProg ==
    /\ variant \in {"core", "app1"}
    /\ wpc = "idle" /\ held = -1 /\ snap = NoSnap
    /\ left \in 1..MaxFiles
    /\ unguarded = FALSE
    /\ SyncRestIdle /\ EqIdle /\ osname = "posix" /\ ValIdle /\ UiIdle
    /\ CfgIdle /\ MetIdle /\ SizeIdle

NextProg ==
    \/ ResetProgress
    \/ TaskRunnerReadTotal
    \/ RunSyncInThread
    \/ CopiedOne
    \/ WorkerDone
    \/ Acquire
    \/ IncProcessed
    \/ SetCurrent
    \/ Release
    \/ ReadTotal
    \/ ReadDone
    \/ ReadCurrent

SpecProg == InitProg /\ [][NextProg]_vars

----------------------------------------------------------------------------
(* BackupTask and ConfigManager: SpecCfg.  Strings are sequences of        *)
(* characters; the file is a configparser.ConfigParser with its default    *)
(* interpolation.                                                          *)

MaxCfgTasks == 2

DEFAULT_EXCLUDE_PATTERNS == <<<<"*", ".", "t">>, PatLog>>

\* Path(text) as the text str() gives back: no trailing separator
Path(text) == IF Len(text) > 1 THEN RStrip(text) ELSE text

BackupTask(name, source, destination, exclude_patterns, delete_extra) ==
    [name |-> name,
     source |-> Path(source),
     destination |-> Path(destination),
     exclude_patterns |-> IF exclude_patterns = <<>>
                          THEN DEFAULT_EXCLUDE_PATTERNS
                          ELSE exclude_patterns,
     delete_extra |-> delete_extra]

\* json.dumps of a list of strings that need no escape
RECURSIVE JoinQuoted(_)
JoinQuoted(list) ==
    IF list = <<>> THEN <<>>
    ELSE <<"\"">> \o Head(list) \o <<"\"">>
         \o (IF Len(list) > 1 THEN <<",", " ">> ELSE <<>>)
         \o JoinQuoted(Tail(list))

json_dumps(list) == <<"[">> \o JoinQuoted(list) \o <<"]">>

\* json.loads of such a text: the strings between the quotes
RECURSIVE ScanJson(_, _, _, _)
ScanJson(text, in_string, current, found) ==
    IF text = <<>> THEN found
    ELSE IF Head(text) = "\""
         THEN IF in_string
              THEN ScanJson(Tail(text), FALSE, <<>>, Append(found, current))
              ELSE ScanJson(Tail(text), TRUE, <<>>, found)
         ELSE ScanJson(Tail(text), in_string,
                       IF in_string THEN Append(current, Head(text))
                       ELSE current,
                       found)

json_loads(text) == ScanJson(text, FALSE, <<>>, <<>>)

\* str(bool)
StrBool(b) == IF b THEN <<"T", "r", "u", "e">> ELSE <<"F", "a", "l", "s", "e">>

LowerChar(c) == CASE c = "T" -> "t" [] c = "F" -> "f" [] OTHER -> c

\* str.lower()
lower(text) == [i \in 1..Len(text) |-> LowerChar(text[i])]

to_dict(t) ==
    [name |-> t.name,
     source |-> t.source,
     destination |-> t.destination,
     exclude_patterns |-> json_dumps(t.exclude_patterns),
     delete_extra |-> StrBool(t.delete_extra)]

from_dict(data) ==
    BackupTask(data.name, data.source, data.destination,
               json_loads(data.exclude_patterns),
               lower(data.delete_extra) = <<"t", "r", "u", "e">>)

\* BasicInterpolation.before_set: a "%" that is not part of "%%" is refused
RECURSIVE BadPercent(_)
BadPercent(value) ==
    IF value = <<>> THEN FALSE
    ELSE IF Head(value) = "%"
         THEN IF Len(value) > 1 /\ value[2] = "%"
              THEN BadPercent(Tail(Tail(value)))
              ELSE TRUE
         ELSE BadPercent(Tail(value))

\* BasicInterpolation.before_get: "%%" is read as "%"
RECURSIVE Interpolate(_)
Interpolate(value) ==
    IF value = <<>> THEN <<>>
    ELSE IF Head(value) = "%" /\ Len(value) > 1 /\ value[2] = "%"
         THEN <<"%">> \o Interpolate(Tail(Tail(value)))
         ELSE <<Head(value)>> \o Interpolate(Tail(value))

\* str.strip(): the parser drops the blanks around a value
RECURSIVE Strip(_)
Strip(value) ==
    IF value # <<>> /\ Head(value) = " " THEN Strip(Tail(value))
    ELSE IF value # <<>> /\ value[Len(value)] = " "
         THEN Strip(SubSeq(value, 1, Len(value) - 1))
         ELSE value

Keys == {"name", "source", "destination", "exclude_patterns", "delete_extra"}

\* config[f"task_{i}"] = task.to_dict() raises ValueError
SetRaises(t) == \E k \in Keys : BadPercent(to_dict(t)[k])

\* config.write and, in load, config.read: the section as the parser holds it
Section(t) == [k \in Keys |-> Strip(to_dict(t)[k])]

\* config[f"task_{i}"] as from_dict reads it
Proxy(section) == [k \in Keys |-> Interpolate(section[k])]

\* ConfigManager.save
Save ==
    /\ cfg_pc = "init"
    /\ IF \E i \in 1..Len(cfg_tasks) : SetRaises(cfg_tasks[i])
       THEN cfg_pc' = "save_raised" /\ UNCHANGED cfg_file
       ELSE /\ cfg_pc' = "saved"
            /\ cfg_file' = [i \in 1..Len(cfg_tasks) |-> Section(cfg_tasks[i])]
    /\ UNCHANGED <<syncVars, eqVars, osname, valVars, uiVars, progVars,
                   metVars, sizeVars, cfg_tasks, cfg_loaded>>

\* ConfigManager.load, by a new ConfigManager on the same path
Load ==
    /\ cfg_pc \in {"saved", "save_raised"}
    /\ cfg_pc' = "loaded"
    /\ cfg_loaded' = [i \in 1..Len(cfg_file) |-> from_dict(Proxy(cfg_file[i]))]
    /\ UNCHANGED <<syncVars, eqVars, osname, valVars, uiVars, progVars,
                   metVars, sizeVars, cfg_tasks, cfg_file>>

NameTexts == {<<"a">>, <<"a", "%">>, <<"%", "%">>, <<" ", "a">>}
SourceTexts == {<<"/", "a">>}
DestinationTexts == {<<"/", "b">>, <<"/", "c", "/">>}
PatternChoices == {<<>>, <<PatLog>>, <<PatLog, PatSub>>, <<<<"%">>>>}

\* BackupTask objects; exclude_patterns is an attribute and may be empty
TaskObjects ==
    {[name |-> n, source |-> Path(sp), destination |-> Path(dp),
      exclude_patterns |-> e, delete_extra |-> d] :
        n \in NameTexts, sp \in SourceTexts, dp \in DestinationTexts,
        e \in PatternChoices, d \in BOOLEAN}

InitCfg ==
    /\ cfg_tasks \in UNION {[1..k -> TaskObjects] : k \in 0..MaxCfgTasks}
    /\ cfg_pc = "init"
    /\ cfg_file = <<>>
    /\ cfg_loaded = <<>>
    /\ SyncIdle /\ EqIdle /\ osname = "posix" /\ ValIdle /\ UiIdle /\ ProgIdle
    /\ MetIdle /\ SizeIdle

NextCfg == Save \/ Load

SpecCfg == InitCfg /\ [][NextCfg]_vars

----------------------------------------------------------------------------
(* BackupMetrics, called in any order or by task_runner: SpecMet *)

MaxClock == 3

nonMet == <<syncVars, eqVars, osname, valVars, uiVars, progVars, cfgVars,
            sizeVars>>

\* duration() with "or" in place of "and"
duration_either(st, et) ==
    IF ~st.none \/ ~et.none THEN Some(et.value - st.value) ELSE None

\* BackupMetrics.duration
duration(st, et) ==
    IF ~st.none /\ ~et.none THEN Some(et.value - st.value) ELSE None

\* time passes
Tick ==
    /\ now < MaxClock
    /\ now' = now + 1
    /\ UNCHANGED <<nonMet, start_time, end_time, user, tr, dur, started,
                   finished>>

\* BackupMetrics.start; task_runner calls it first
MetricsStart ==
    /\ user = "any" \/ tr = "new"
    /\ start_time' = Some(now)
    /\ started' = TRUE
    /\ tr' = IF user = "any" THEN tr ELSE "started"
    /\ UNCHANGED <<nonMet, end_time, now, user, dur, finished>>

\* task_runner calls sync_recursive
SyncCalled ==
    /\ tr = "started"
    /\ tr' = "syncing"
    /\ UNCHANGED <<nonMet, start_time, end_time, now, user, dur, started,
                   finished>>

\* sync_recursive returns to task_runner
SyncReturned ==
    /\ tr = "syncing"
    /\ tr' = "returned"
    /\ UNCHANGED <<nonMet, start_time, end_time, now, user, dur, started,
                   finished>>

\* sync_recursive raises: task_runner ends there
SyncRaised ==
    /\ tr = "syncing"
    /\ tr' = "dead"
    /\ UNCHANGED <<nonMet, start_time, end_time, now, user, dur, started,
                   finished>>

\* BackupMetrics.finish
MetricsFinish ==
    /\ user = "any" \/ tr = "returned"
    /\ end_time' = Some(now)
    /\ finished' = TRUE
    /\ tr' = IF user = "any" THEN tr ELSE "finished"
    /\ UNCHANGED <<nonMet, start_time, now, user, dur, started>>

\* a call of duration(); task_runner logs the result
MetricsDuration ==
    /\ user = "any" \/ tr = "finished"
    /\ LET d == duration(start_time, end_time)
       IN  dur' = [read |-> TRUE, none |-> d.none, value |-> d.value]
    /\ tr' = IF user = "any" THEN tr ELSE "logged"
    /\ UNCHANGED <<nonMet, start_time, end_time, now, user, started,
                   finished>>

InitMet ==
    /\ start_time = None /\ end_time = None
    /\ now = 0
    /\ user \in {"any", "task_runner"}
    /\ tr = IF user = "any" THEN "none" ELSE "new"
    /\ dur = NotRead
    /\ started = FALSE /\ finished = FALSE
    /\ SyncIdle /\ EqIdle /\ osname = "posix" /\ ValIdle /\ UiIdle /\ ProgIdle
    /\ CfgIdle /\ SizeIdle

NextMet ==
    \/ Tick
    \/ MetricsStart
    \/ SyncCalled
    \/ SyncReturned
    \/ SyncRaised
    \/ MetricsFinish
    \/ MetricsDuration

SpecMet == InitMet /\ [][NextMet]_vars

----------------------------------------------------------------------------
(* get_folder_size over the entries that the glob yields: SpecSize *)

MaxEntries == 3

\* err: "skip", entry.is_file() answers False because the entry is gone;
\* "raise", entry.is_file() or entry.stat() raises an OSError
Entries ==
    [kind : {"file", "dir"}, size : 1..MaxSize, err : {"none", "skip", "raise"}]

\* the for loop inside the try block: an exception ends the loop
RECURSIVE SumEntries(_, _)
SumEntries(es, sum) ==
    IF es = <<>> THEN sum
    ELSE IF Head(es).err = "raise" THEN sum
    ELSE IF Head(es).err = "none" /\ Head(es).kind = "file"
         THEN SumEntries(Tail(es), sum + Head(es).size)
         ELSE SumEntries(Tail(es), sum)

get_folder_size(es) == SumEntries(es, 0)

GetFolderSize ==
    /\ ~size_done
    /\ size_done' = TRUE
    /\ size_total' = get_folder_size(entries)
    /\ UNCHANGED <<syncVars, eqVars, osname, valVars, uiVars, progVars,
                   cfgVars, metVars, entries>>

InitSize ==
    /\ entries \in UNION {[1..k -> Entries] : k \in 0..MaxEntries}
    /\ size_done = FALSE
    /\ size_total = 0
    /\ SyncIdle /\ EqIdle /\ osname = "posix" /\ ValIdle /\ UiIdle /\ ProgIdle
    /\ CfgIdle /\ MetIdle

NextSize == GetFolderSize

SpecSize == InitSize /\ [][NextSize]_vars

----------------------------------------------------------------------------
(* Vocabulary of the claims about sync_recursive *)

RunOver == pc \in {"done", "raised"}

\* the entry at p was created or changed since the first run began
Written(p) == p \in DOMAIN dst /\ (p \notin DOMAIN dst0 \/ dst[p] # dst0[p])

\* p or a directory above p matches a pattern, relative to the source root
ExcludedFromRoot(p) ==
    \E k \in 1..Len(p) : is_excluded(SubSeq(p, 1, k), patterns, <<>>)

\* a name on p matches a pattern relative to the directory that holds it
ExcludedAtLevel(p) ==
    \E k \in 1..Len(p) :
        is_excluded(SubSeq(p, 1, k), patterns, SubSeq(p, 1, k - 1))

NoExclusionInEffect ==
    \A p \in DOMAIN src : ~ExcludedFromRoot(p) /\ ~ExcludedAtLevel(p)

FilesOf(t) == {p \in DOMAIN t : t[p].kind = "file"}

\* the subtree of t below p, with paths relative to p
Subtree(t, p) ==
    [q \in {Suffix(r, Len(p)) : r \in Under(t, p) \ {p}} |-> t[p \o q]]

\* C1: a source entry that matches an exclusion pattern relative to the
\* source root is never written to the destination, at any depth.
C1_ExcludedNeverWritten ==
    variant = "core" =>
        \A p \in DOMAIN src : is_excluded(p, patterns, <<>>) => ~Written(p)

\* C2: the second of two runs in succession makes no call of safe_copy and,
\* with delete_extra, no call of safe_remove.
C2_SecondRunIdle ==
    run = 2 => calls.copy = 0 /\ (delete => calls.remove = 0)

\* C3: after a run with delete_extra and no exclusion in effect the
\* destination has the entries of the source, with the same kinds.
C3_RoundTrip ==
    (variant = "core" /\ run = 1 /\ RunOver /\ delete /\ NoExclusionInEffect
        /\ metrics.errors = 0)
    => /\ DOMAIN dst = DOMAIN src
       /\ \A p \in DOMAIN src : dst[p].kind = src[p].kind

\* a child of the task's root that is a directory on one side and a file on
\* the other
KindConflict(n) ==
    /\ <<n>> \in DOMAIN src /\ <<n>> \in DOMAIN dst0
    /\ ~is_excluded(<<n>>, patterns, <<>>)
    /\ src[<<n>>].kind # dst0[<<n>>].kind

\* C4: after the run a kind conflict is resolved in favour of the source:
\* the destination entry has the source's kind and, for a directory, the
\* source's children.
C4_KindConflictResolved ==
    (variant = "core" /\ run = 1 /\ RunOver)
    => \A n \in Names :
          KindConflict(n) =>
             /\ KindAt(dst, <<n>>) = src[<<n>>].kind
             /\ Subtree(dst, <<n>>) = Subtree(src, <<n>>)

KeptFiles == {p \in FilesOf(src) : ~ExcludedFromRoot(p)}

\* C5: a run into an empty destination leaves exactly the source files that
\* match no pattern, counts them in copied_files and counts no error.
C5_EmptyDestination ==
    (variant = "core" /\ run = 1 /\ pc = "done" /\ dst0 = EmptyTree /\ delete)
    => /\ FilesOf(dst) = KeptFiles
       /\ metrics.copied_files = Cardinality(KeptFiles)
       /\ metrics.errors = 0

Untouched(p) == p \in DOMAIN dst /\ dst[p] = dst0[p]

\* C6 as claimed: without delete_extra every destination entry that has no
\* counterpart in the source stays as it was.
C6_ExtrasUntouched ==
    ~delete => \A p \in DOMAIN dst0 : p \notin DOMAIN src => Untouched(p)

\* p lies inside a destination directory whose source counterpart is a file
InsideReplacedDir(p) ==
    \E k \in 1..(Len(p) - 1) :
        /\ KindAt(src, SubSeq(p, 1, k)) = "file"
        /\ KindAt(dst0, SubSeq(p, 1, k)) = "dir"

\* C6 amended: ... unless it lies inside a destination directory that the
\* source has as a file (the directory is replaced as a kind conflict).
C6_ExtrasUntouchedOutsideConflicts ==
    ~delete =>
        \A p \in DOMAIN dst0 :
            (p \notin DOMAIN src /\ ~InsideReplacedDir(p)) => Untouched(p)

\* C6, a state where the claim's case has happened: a run without
\* delete_extra has copied something and an extra entry is still there
C6_Witness ==
    /\ ~delete /\ run = 1 /\ pc = "done" /\ calls.copy > 0
    /\ \E p \in DOMAIN dst0 :
          p \notin DOMAIN src /\ ~InsideReplacedDir(p) /\ Untouched(p)

----------------------------------------------------------------------------
(* Claims about failures, recursion and termination of sync_recursive *)

\* C11: once a run has started, sync_recursive returns normally whatever
\* copy, delete, stat, mkdir or listing fails: no exception reaches the
\* caller.
C11_NeverRaises == run >= 1 => pc # "raised"

\* the step calls safe_copy / safe_remove
CopyCall == CopyNew \/ UpdateFile \/ ConflictCopy
RemoveCall == ConflictRemove \/ DeleteExtra

CopyFailed == ~safe_copy(dst, SrcPath, DstPath).ok

RemovedPath ==
    IF Top.todo # <<>> THEN DstPath ELSE Append(Top.dst, Head(Top.extras))

RemoveFailed == ~safe_remove(dst, RemovedPath).ok

\* the children of the destination root that the deletion pass is to remove
RootExtras ==
    {n \in Names : /\ <<n>> \in DOMAIN dst0
                   /\ ~(<<n>> \in DOMAIN src
                        /\ ~is_excluded(<<n>>, patterns, <<>>))}

\* the deletion pass of the root has called safe_remove on every extra
DeletionPassDone ==
    \A n \in RootExtras : <<n>> \notin DOMAIN dst \/ Fails("remove", <<n>>)

\* C12: every call of safe_copy or safe_remove gives log_callback one line;
\* a failed call adds one to metrics.errors and a successful one adds
\* nothing; after a failed call the walk goes on with the next source
\* sibling, and a run in which a call failed still performs the deletion
\* pass.
C12_FailuresCountedWalkContinues ==
    [][/\ (CopyCall \/ RemoveCall) => calls'.log = calls.log + 1
       /\ CopyCall =>
              metrics'.errors = metrics.errors + (IF CopyFailed THEN 1 ELSE 0)
       /\ RemoveCall =>
              metrics'.errors = metrics.errors + (IF RemoveFailed THEN 1 ELSE 0)
       /\ (CopyCall /\ CopyFailed) =>
              /\ pc' = "running"
              /\ stack'[Len(stack')].todo = Tail(Top.todo)
       /\ (pc' \in {"done", "raised"} /\ delete /\ metrics'.errors > 0
             /\ fault \in {"copy", "remove"})
              => DeletionPassDone'
      ]_vars

\* C19: in src/core/sync_logic.py the recursive call for a directory that
\* both sides have works on the child pair: the new call lists source/name
\* and destination/name.
C19_RecursesIntoChildPair ==
    [][(variant = "core" /\ Recurse /\ Len(stack') = Len(stack) + 1) =>
          /\ stack'[Len(stack')].src = SrcPath
          /\ stack'[Len(stack')].dst = DstPath]_vars

\* the depth of the deepest directory of the tree
RECURSIVE MaxLen(_)
MaxLen(ps) ==
    IF ps = {} THEN 0
    ELSE LET p == CHOOSE q \in ps : TRUE
             m == MaxLen(ps \ {p})
         IN  IF Len(p) > m THEN Len(p) ELSE m

TreeDepth(t) == MaxLen({p \in DOMAIN t : t[p].kind = "dir"})

\* C20: a run of src/core/sync_logic.py never nests more calls than the
\* source tree is deep (the root call included) and ends by returning.
C20_Terminates ==
    variant = "core" =>
        /\ Len(stack) <= TreeDepth(src) + 1
        /\ (run >= 1 /\ pc # "running") => pc = "done"

----------------------------------------------------------------------------
(* Claims about the shared progress state *)

\* the three fields of a snapshot were read from different dicts
Torn == \E i, j \in 1..Len(snap.from) : snap.from[i] # snap.from[j]

\* C13: every read and write of total_files, processed_files and
\* current_file is made while holding the lock of the dict accessed, and no
\* snapshot of update_progress mixes fields of different updates, whatever
\* the interleaving of the worker with run_task's reset of progress_info.
C13_ProgressGuarded == ~unguarded /\ ~Torn

----------------------------------------------------------------------------
(* Claims about persistence *)

\* C16: save followed by load returns the saved tasks: the same number, in
\* the same order, each with the same name, source, destination,
\* exclude_patterns and delete_extra, an empty exclude_patterns and
\* delete_extra = False included.
C16_SaveLoadRoundTrip ==
    /\ cfg_pc # "save_raised"
    /\ cfg_pc = "loaded" => cfg_loaded = cfg_tasks

----------------------------------------------------------------------------
(* Claims about BackupMetrics and get_folder_size *)

\* C17: duration() returns None as long as start() or finish() has not
\* been called and end_time - start_time once both have been; in
\* task_runner, start() comes before sync_recursive, finish() after it, and
\* duration() is read only after finish().
C17_Duration ==
    [][/\ MetricsDuration =>
              /\ dur'.none <=> ~(started /\ finished)
              /\ ~dur'.none => dur'.value = end_time.value - start_time.value
       /\ user = "task_runner" =>
              /\ tr' \in {"syncing", "returned", "dead"}
                     => started' /\ ~finished'
              /\ tr' = "new" => ~started'
              /\ dur'.read => finished' /\ ~dur'.none
      ]_vars

\* C17: task_runner has logged a duration of at least one tick
C17_Witness ==
    /\ user = "task_runner" /\ tr = "logged"
    /\ dur = [read |-> TRUE, none |-> FALSE,
              value |-> end_time.value - start_time.value]
    /\ dur.value > 0

\* the sizes of the files that can be read
RECURSIVE SumReadable(_)
SumReadable(es) ==
    IF es = <<>> THEN 0
    ELSE (IF Head(es).kind = "file" /\ Head(es).err = "none"
          THEN Head(es).size ELSE 0) + SumReadable(Tail(es))

\* C18: get_folder_size returns the sum of the sizes of all the files that
\* can be read: a failing entry counts zero and every other file counts,
\* those enumerated after it included.
C18_FolderSize == size_done => size_total = SumReadable(entries)

----------------------------------------------------------------------------
(* Claims about files_are_equal *)

Delta == file1.mtime - file2.mtime

\* C7: files_are_equal is false when file2 does not exist; otherwise it is
\* true exactly when the sizes are the same and the modification times are
\* less than one second apart, in either direction: 0.9 s apart is equal,
\* 1 s and 1.5 s apart are not, and swapping the two times changes nothing.
C7_FilesAreEqual ==
    eq_done =>
        /\ ~file2_exists => ~equal
        /\ file2_exists =>
              (equal <=> /\ file1.size = file2.size
                         /\ -OneSecond < Delta /\ Delta < OneSecond)
        /\ (file2_exists /\ file1.size = file2.size) =>
              /\ Delta \in {OneSecond - 1, 1 - OneSecond} => equal
              /\ Delta \in {OneSecond, -OneSecond} => ~equal
              /\ Delta \in {OneSecond + 5, -(OneSecond + 5)} => ~equal
        /\ equal = files_are_equal([file1 EXCEPT !.mtime = file2.mtime],
                                   file2_exists,
                                   [file2 EXCEPT !.mtime = file1.mtime])

\* C7: file2 is 0.9 s newer than file1 and the two were found equal
C7_Witness ==
    /\ eq_done /\ file2_exists /\ equal
    /\ file1.size = file2.size /\ Delta = 1 - OneSecond

----------------------------------------------------------------------------
(* Claims about validate_paths and run_task *)

\* the path is the root of a drive or of the filesystem
IsFsRoot(os, p) == is_absolute(os, p) /\ p.parts = <<>>

\* C8: no destination that is a filesystem root passes validate_paths.
C8_RootDestinationRejected ==
    (verdict # "none" /\ IsFsRoot(osname, v_dst)) => verdict # "ok"

\* C10: validate_paths raises the not-absolute error whenever one of the
\* paths is not absolute, before the other checks, and returns normally only
\* for absolute paths that resolve to different locations with a destination
\* that is not a drive root.
C10_ValidatePaths ==
    verdict # "none" =>
        /\ (~is_absolute(osname, v_src) \/ ~is_absolute(osname, v_dst))
               => verdict = "NotAbsolute"
        /\ verdict = "ok" =>
              /\ is_absolute(osname, v_src) /\ is_absolute(osname, v_dst)
              /\ ~PathEq(osname, resolve(osname, v_src),
                         resolve(osname, v_dst))
              /\ ~IsFsRoot(osname, v_dst)

\* source and destination of the current task resolve to the same location
SameLocation ==
    /\ current_task # 0
    /\ PathEq(osname, resolve(osname, tasks[current_task].source),
              resolve(osname, tasks[current_task].destination))

\* C9: run_task on a task whose source and destination resolve to the same
\* location shows the same-location error and changes nothing else: no log
\* directory, no log file, no reset of progress_info, no job submitted.
C9_SameLocationStopsRunTask ==
    [][(RunTask /\ SameLocation) =>
          /\ shown' = "SameLocation"
          /\ UNCHANGED <<log_dir_exists, log_files, progress_info, queue,
                         worker, run_btn, submitted, completions>>]_vars

\* C9: run_task has refused a same-location task and nothing was created
C9_Witness ==
    /\ shown = "SameLocation"
    /\ ~log_dir_exists /\ log_files = 0 /\ submitted = 0

\* executions of sync_recursive in progress
ActiveRuns == (IF worker = "running" THEN 1 ELSE 0) + threads

\* C14: at most one sync run is active at any time, whatever the sequence
\* of run-button presses, selections in the task list and completions.
C14_OneActiveRun == ActiveRuns <= 1

\* the current task passes validate_paths
Validated ==
    /\ current_task # 0
    /\ validate_paths(osname, resolve(osname, tasks[current_task].source),
                      resolve(osname, tasks[current_task].destination)) = "ok"

\* C15: the capacity check is advisory: run_task on a validated task
\* starts the run whatever get_folder_size and get_free_space return or
\* raise and whatever the user answers.
C15_CapacityCheckAdvisory ==
    [][(RunTask /\ Validated) => submitted' = submitted + 1]_vars

----------------------------------------------------------------------------
(* Claims about the deletion pass, the skip of equal files and the early   *)
(* returns of sync_recursive                                               *)

\* the names of the exclusion-filtered source child list of directory sp
FilteredNames(sp) ==
    {n \in Names : /\ Append(sp, n) \in DOMAIN src
                   /\ ~is_excluded(Append(sp, n), patterns, sp)}

\* the destination children listed by call f that the deletion pass is to
\* hand to safe_remove
LevelExtras(f) == {n \in f.dst_items : n \notin FilteredNames(f.src)}

\* C21: with delete_extra, when a call of sync_recursive is over, every
\* destination child that its listing held and whose name is not in the
\* filtered source list has been removed by safe_remove, whether or not the
\* child matches a pattern; and the deletion pass hands safe_remove no child
\* whose name is in the filtered source list.
C21_DeletionPass ==
    [][/\ (delete /\ pc = "running" /\ Len(stack') < Len(stack)) =>
              \A i \in (Len(stack') + 1)..Len(stack) :
                  \A n \in LevelExtras(stack[i]) :
                      Append(stack[i].dst, n) \notin DOMAIN dst'
       /\ DeleteExtra =>
              /\ Head(Top.extras) \in Top.dst_items
              /\ Head(Top.extras) \notin FilteredNames(Top.src)
      ]_vars

\* the source file at p and the destination file at q have the same size
\* and modification times less than one second apart
StatEqual(p, q) ==
    /\ src[p].size = dst[q].size
    /\ Abs(src[p].mtime - dst[q].mtime) < OneSecond

\* C22: a name that is a file on both sides, with stats that files_are_equal
\* finds equal, is skipped: the destination, the counters and the calls of
\* safe_copy, update_progress and log_callback stay as they are and the
\* walk goes on; with stats found not equal safe_copy is called once.
C22_EqualFilesSkipped ==
    [][/\ (BothFiles /\ StatEqual(SrcPath, DstPath)) =>
              /\ dst' = dst
              /\ metrics' = metrics
              /\ calls' = calls
              /\ pc' = "running"
              /\ stack' = Append(Rest, Advanced)
       /\ (BothFiles /\ ~StatEqual(SrcPath, DstPath)) =>
              /\ calls'.copy = calls.copy + 1
              /\ calls'.remove = calls.remove
      ]_vars

\* C22: a run is over in which a file that both sides have, 0.9 s apart,
\* was skipped and another file was copied
C22_Witness ==
    /\ run = 1 /\ pc = "done" /\ calls.copy = 1 /\ metrics.copied_files = 1
    /\ \E n \in Names :
          /\ KindAt(src, <<n>>) = "file" /\ KindAt(dst0, <<n>>) = "file"
          /\ ~is_excluded(<<n>>, patterns, <<>>)
          /\ src[<<n>>].mtime - dst0[<<n>>].mtime = OneSecond - 1
          /\ dst[<<n>>] = dst0[<<n>>]

\* C23: when task.source does not exist, the call logs one line and returns:
\* the destination directory is not created, the destination tree stays as
\* it is, also with delete_extra, nothing is copied or removed and the
\* counters of the run stay at zero.
C23_MissingSource ==
    [][~roots.src =>
          /\ pc' = "done"
          /\ stack' = <<>>
          /\ dst' = dst
          /\ roots' = roots
          /\ metrics' = NoMetrics
          /\ calls' = [NoCalls EXCEPT !.log = 1]
      ]_vars

\* C23: a run with delete_extra on a missing source is over and the
\* destination still has its entries
C23_Witness ==
    /\ ~roots.src /\ run = 1 /\ pc = "done" /\ delete
    /\ dst # EmptyTree /\ dst = dst0 /\ calls.log = 1

\* the call of line 38 in this state finds a listing that fails
NestedListingFails ==
    /\ BothDirs
    /\ Len(stack) < RecursionLimit
    /\ IterdirFails(Append(Rest, Advanced), CalleeSrc)

----------------------------------------------------------------------------
(* Claims about the progress counters, the queued task, the completion of  *)
(* a run and the pre-count                                                 *)

\* C25: in src/ui/main_window.py with src/core/sync_logic.py, whenever
\* update_progress has read processed_files, the value read is the number
\* of single-file copies completed so far (metrics.copied_files).
C25_ProgressCountsCopies ==
    (variant = "core" /\ wpc \in {"up_current", "up_unlock"})
        => snap.done = metrics.copied_files

\* C26: the task that task_runner hands to sync_recursive, self.current_task
\* as it is when the executor starts the job, is the task that run_task
\* validated when it submitted the job, and never None.
C26_RunnerMirrorsValidated ==
    [][TaskRunnerStart => current_task = Head(queue).validated]_vars

\* C27: every run that has started is followed by on_task_complete: the
\* callback is posted whether sync_recursive returns or raises, and it sets
\* the run button back to 'normal'.
C27_RunsComplete ==
    (worker = "running" \/ threads > 0) ~> (completions > 0)

\* C28: during a run the count of single-file copies (metrics.copied_files;
\* processed_files in src/app1.py) never exceeds the pre-count that
\* get_total_files made of the source.
C28_CopiesWithinPreCount ==
    metrics.copied_files <= get_total_files(src, patterns)

====
